---- MODULE Spec2Model ----
(***************************************************************************)
(* Model of chainlit_foundry_chat.py: the chat session handlers (start,    *)
(* handle_message, end), the poll loop wait_for_run_completion and the     *)
(* pure helpers extract_message_content and format_agent_response, run     *)
(* against a remote agent service whose answers are nondeterministic.      *)
(*                                                                         *)
(* Strings are sequences of characters (one-character strings, plus a few  *)
(* multi-character tokens for fixed words of the program's literals).      *)
(* Python's None is the one-element sequence None.                         *)
(***************************************************************************)
EXTENDS Integers, Sequences, FiniteSets, TLC

\* ------------------------------------------------------------------ bounds

\* Number of concurrent chat sessions.
NumSessions == 2
\* Number of message-received events, over all sessions.
MaxEvents == 2

\* Longest text given to format_agent_response on its own, in characters.
MaxLen == 3

\* Most content parts of a message given to extract_message_content on its
\* own.
MaxParts == 3

Sessions == 1..NumSessions
ThreadIds == 1..NumSessions

\* --------------------------------------------------------- program constants

\* wait_for_run_completion's default max_wait_time.
max_wait_time == 60

\* asyncio.sleep(1): the inter-tick wait lasts at least this long.
sleep_interval == 1

\* Wall-clock time from one deadline check to the next: asyncio.sleep(1)
\* returns after at least one second, later when the event loop is held by a
\* blocking remote call, and runs.get takes its own time. The samples reach
\* the deadline exactly (60, not yet timed out) and pass it (61).
SleepDurations == {d \in {60, 61} : d >= sleep_interval}

\* ------------------------------------------------------------------ strings

None == <<"None">>

Whitespace == {" ", "\n", "\t"}

\* Python truthiness of an optional string.
Truthy(t) == t # None /\ t # <<>>

\* str.lstrip(): the text from its first non-whitespace character on.
lstrip(t) ==
  LET keep == {i \in 1..Len(t) : t[i] \notin Whitespace} IN
  IF keep = {} THEN <<>>
  ELSE SubSeq(t, CHOOSE i \in keep : \A j \in keep : i <= j, Len(t))

\* str.rstrip(): the text up to its last non-whitespace character.
rstrip(t) ==
  LET keep == {i \in 1..Len(t) : t[i] \notin Whitespace} IN
  IF keep = {} THEN <<>>
  ELSE SubSeq(t, 1, CHOOSE i \in keep : \A j \in keep : j <= i)

\* str.strip()
strip(t) == rstrip(lstrip(t))

\* str.startswith(p)
startswith(t, p) == Len(t) >= Len(p) /\ SubSeq(t, 1, Len(p)) = p

\* p in t, for a one-token p
contains(t, c) == \E i \in 1..Len(t) : t[i] = c

\* Variant: the heading is plain text, without the markdown marker.
Heading_unmarked == <<"robot", " ", "Agent", " ", "Response", "\n", "\n">>

\* "## <robot> Agent Response\n\n"
Heading == <<"#", "#", " ", "robot", " ", "Agent", " ", "Response", "\n", "\n">>

NoContentNotice == Heading \o <<"No response content available.">>

\* "fence" is the three-backquote token of a markdown code block.
IsCodeLike(t) ==
  \/ contains(t, "fence")
  \/ startswith(t, <<"def", " ">>)
  \/ startswith(t, <<"class", " ">>)

\* Variant: code-like text is wrapped in a code block of its own.
format_agent_response_fenced(response_text) ==
  IF ~Truthy(response_text)
  THEN NoContentNotice
  ELSE LET text == strip(response_text) IN
       IF ~startswith(text, <<"#">>)
       THEN IF IsCodeLike(text)
            THEN Heading \o <<"fence">> \o text \o <<"fence">>
            ELSE Heading \o text
       ELSE text

format_agent_response(response_text) ==
  IF ~Truthy(response_text)
  THEN NoContentNotice
  ELSE LET text == strip(response_text) IN
       IF ~startswith(text, <<"#">>)
       THEN IF IsCodeLike(text)
            THEN Heading \o text
            ELSE Heading \o text
       ELSE text

\* ----------------------------------------------------------------- messages

\* A content part of a thread message. has_text: the part has a text
\* attribute; has_value: that attribute has a value attribute.
TextPart(v) == [type |-> "text", has_text |-> TRUE, has_value |-> TRUE, value |-> v]
ImagePart == [type |-> "image_file", has_text |-> FALSE, has_value |-> FALSE, value |-> <<>>]
BareTextPart == [type |-> "text", has_text |-> FALSE, has_value |-> FALSE, value |-> <<>>]

\* The loop of extract_message_content: the first branch returns the text
\* value; the second branch reads content_item.text.value of a part the first
\* branch has refused, which raises AttributeError, and the except clause
\* returns None.
RECURSIVE scan_content(_)
scan_content(parts) ==
  IF parts = <<>> THEN None
  ELSE LET content_item == Head(parts) IN
       IF content_item.has_text /\ content_item.has_value
       THEN content_item.value
       ELSE IF content_item.type = "text"
            THEN None
            ELSE scan_content(Tail(parts))

extract_message_content(message) ==
  IF message.content # <<>> THEN scan_content(message.content) ELSE None

\* ------------------------------------------------------------ remote service

\* Run statuses the service reports. "requires_action" is a status the
\* program names nowhere.
TerminalStatuses == {"completed", "failed", "cancelled", "expired"}
Statuses == {"queued", "in_progress", "requires_action"} \cup TerminalStatuses

\* A terminal status never changes; any other status may be followed by any.
Successors(st) == IF st \in TerminalStatuses THEN {st} ELSE Statuses

\* run.last_error as get_run returns it: attr is whether the run object has
\* the attribute, none whether it is None, items the mapping's key/value pairs.
LastError(attr, none, items) == [attr |-> attr, none |-> none, items |-> items]
NoLastError == LastError(TRUE, TRUE, {})
LastErrors ==
  { LastError(FALSE, FALSE, {}),
    NoLastError,
    LastError(TRUE, FALSE, {}),
    LastError(TRUE, FALSE, {<<"code", "server_error">>}),
    LastError(TRUE, FALSE, {<<"code", "rate_limit_exceeded">>,
                            <<"message", "Rate limit is exceeded.">>}) }

\* Texts of the user and of the agent.
UserText == <<"H", "e", "l", "l", "o">>
Hi == <<"H", "i">>
Headed == <<"#", " ", "T">>
Padded == <<" ", "H", "i", "\n">>

\* What the agent may leave on the thread when a run completes: nothing, or
\* one assistant message with one of these contents.
ReplyContents ==
  { <<TextPart(Padded)>>,
    <<TextPart(Headed)>>,
    <<ImagePart>>,
    <<BareTextPart, TextPart(Hi)>> }

Message(role, created_at, content) ==
  [role |-> role, created_at |-> created_at, content |-> content]

\* The text parts of a message, in order.
RECURSIVE text_values(_)
text_values(parts) ==
  IF parts = <<>> THEN <<>>
  ELSE IF Head(parts).has_text /\ Head(parts).has_value
       THEN <<Head(parts).value>> \o text_values(Tail(parts))
       ELSE text_values(Tail(parts))

\* The service's get_last_message_text_by_role: the last text of the newest
\* message of that role, None when there is none.
last_message_text_by_role(ms, role) ==
  LET idx == {i \in 1..Len(ms) : ms[i].role = role} IN
  IF idx = {} THEN None
  ELSE LET m == ms[CHOOSE i \in idx : \A j \in idx : j <= i]
           tv == text_values(m.content) IN
       IF tv = <<>> THEN None ELSE tv[Len(tv)]

Reverse(q) == [i \in 1..Len(q) |-> q[Len(q) + 1 - i]]

\* The service's list_messages: the thread's messages, oldest or newest first.
list_messages(ms, order) == IF order = "asc" THEN ms ELSE Reverse(ms)

\* ------------------------------------------------------------------- state

VARIABLES
  thread_id,   \* cl.user_session["thread_id"] of each session; 0 is absent
  pc,          \* where each session's handler stands
  events,      \* message-received events each session has had
  started,     \* what each session's start did: its failure and its thread
  threads,     \* service: number of threads created (their ids are 1..threads)
  msgs,        \* service: the messages of each thread, oldest first
  runs,        \* service: the runs of each thread (a run's id is its index)
  local,       \* handle_message's local variables, per session
  calls,       \* remote calls of the session's current event, in order
               \* (consecutive polls of one run are recorded once)
  sent         \* messages the session's current handler has rendered, in order

vars == <<thread_id, pc, events, started, threads, msgs, runs, local, calls, sent>>

\* A rendered chat message: its kind, its formatted text (responses) and the
\* value interpolated into it (exception description, status, error message).
Rendered(kind, text, detail) == [kind |-> kind, text |-> text, detail |-> detail]

Call(name, t, r) == <<name, t, r>>

\* The log of calls after one more call.
Logged(log, call) ==
  IF log # <<>> /\ log[Len(log)] = call /\ call[1] = "runs.get"
  THEN log
  ELSE Append(log, call)

LocalInit ==
  [ run_id |-> 0, elapsed |-> 0, status |-> "", created_at |-> 0,
    last_error |-> NoLastError, raised |-> "", response_text |-> None,
    primary_raised |-> FALSE, primary_text |-> None, messages_list |-> <<>>,
    deadline_passed |-> FALSE, cancel_raised |-> FALSE ]

Init ==
  /\ thread_id = [s \in Sessions |-> 0]
  /\ pc = [s \in Sessions |-> "new"]
  /\ events = [s \in Sessions |-> 0]
  /\ started = [s \in Sessions |-> [fail |-> "", thread |-> 0]]
  /\ threads = 0
  /\ msgs = [t \in ThreadIds |-> <<>>]
  /\ runs = [t \in ThreadIds |-> <<>>]
  /\ local = [s \in Sessions |-> LocalInit]
  /\ calls = [s \in Sessions |-> <<>>]
  /\ sent = [s \in Sessions |-> <<>>]

RECURSIVE EventsUpTo(_)
EventsUpTo(n) == IF n = 0 THEN 0 ELSE events[n] + EventsUpTo(n - 1)

\* Message-received events so far, over all sessions.
TotalEvents == EventsUpTo(NumSessions)

\* The newest timestamp the service has given out on a thread.
LastStamp(t) ==
  LET stamps == {msgs[t][i].created_at : i \in 1..Len(msgs[t])}
                \cup {runs[t][i].created_at : i \in 1..Len(runs[t])} \cup {0}
  IN CHOOSE x \in stamps : \A y \in stamps : y <= x

\* created_at has a resolution of one second: a record is stamped with the
\* second of the thread's newest record or a later one.
NextStamps(t) == IF LastStamp(t) = 0 THEN {1} ELSE {LastStamp(t), LastStamp(t) + 1}

\* Variant: the loop waits with time.sleep(1), which keeps the event loop.
sleep_keeps_event_loop == TRUE

\* await asyncio.sleep(1) suspends the coroutine and gives the event loop to
\* the callbacks of other sessions.
sleep_holds_event_loop == FALSE

\* The event loop can run a callback step of session s: no other session's
\* handler is holding it.
Runnable(s) ==
  \A o \in Sessions \ {s} : pc[o] = "sleep" => ~sleep_holds_event_loop

\* ------------------------------------------------------------ session start

Welcome == Rendered("welcome", <<>>, "")
ConnectionError(e) == Rendered("connection_error", <<>>, e)

\* The step of start that raises, "" when none does.
StartFailures == {"", "threads.create", "user_session.set", "Message.send"}

\* Variant: every session stores the same id.
stored_thread_id_shared(thread) == 1

\* What start stores under "thread_id": the id of the thread it created.
stored_thread_id(thread) == thread

\* Variant: start has no except clause and renders nothing on a failure.
start_failure_notice_none(e) == <<>>

\* The except clause of start: the connection-error notice with str(e).
start_failure_notice(e) == <<ConnectionError(e)>>

\* Sessions are interchangeable: they are numbered in the order they start.
start(s) ==
  /\ pc[s] = "new"
  /\ Runnable(s)
  /\ \A o \in Sessions : o < s => pc[o] # "new"
  /\ \E fail \in StartFailures :
       LET created == fail # "threads.create"
           thread == threads + 1
           stored == fail \in {"", "Message.send"}
       IN
       /\ threads' = IF created THEN thread ELSE threads
       /\ thread_id' = IF stored
                       THEN [thread_id EXCEPT ![s] = stored_thread_id(thread)]
                       ELSE thread_id
       /\ started' = [started EXCEPT ![s] =
                        [fail |-> fail, thread |-> IF created THEN thread ELSE 0]]
       /\ sent' = [sent EXCEPT ![s] =
                     IF fail = "" THEN <<Welcome>> ELSE start_failure_notice(fail)]
  /\ calls' = [calls EXCEPT ![s] = <<Call("threads.create", 0, 0)>>]
  /\ pc' = [pc EXCEPT ![s] = "idle"]
  /\ UNCHANGED <<events, msgs, runs, local>>

\* -------------------------------------------------------------- session end

\* end reads thread_id and prints it; nothing is written or deleted.
end(s) ==
  /\ pc[s] = "idle"
  /\ Runnable(s)
  /\ pc' = [pc EXCEPT ![s] = "ended"]
  /\ UNCHANGED <<thread_id, events, started, threads, msgs, runs, local, calls, sent>>

\* ---------------------------------------------------------- handle_message

SessionError == Rendered("session_error", <<>>, "")
ProcessingError(e) == Rendered("processing_error", <<>>, e)
Response(text) == Rendered("response", text, "")
NoResponse == Rendered("no_response", <<>>, "")
ProcessingFailed(error_message) == Rendered("processing_failed", <<>>, error_message)
UnexpectedStatus(status) == Rendered("unexpected_status", <<>>, status)

TimeoutDescription == "Agent response timed out after 60 seconds"

\* Variant: the handler does not check thread_id.
thread_id_missing_unchecked(tid) == FALSE

\* if not thread_id
thread_id_missing(tid) == tid = 0

\* Variant: the except clause lets the exception go on to the caller and
\* renders nothing.
except_clause_silent(s, e, made, more) ==
  /\ sent' = sent
  /\ calls' = [calls EXCEPT ![s] =
                 (IF pc[s] = "poll"
                  THEN Logged(@, Call("runs.get", thread_id[s], local[s].run_id))
                  ELSE @) \o made]
  /\ local' = [local EXCEPT ![s] = [more EXCEPT !.raised = e]]
  /\ pc' = [pc EXCEPT ![s] = "idle"]

\* The except clause of handle_message: whatever was raised inside the try
\* block is rendered as the processing-error notice and the handler returns.
except_clause(s, e, made, more) ==
  /\ sent' = [sent EXCEPT ![s] = Append(@, ProcessingError(e))]
  /\ calls' = [calls EXCEPT ![s] =
                 (IF pc[s] = "poll"
                  THEN Logged(@, Call("runs.get", thread_id[s], local[s].run_id))
                  ELSE @) \o made]
  /\ local' = [local EXCEPT ![s] = [more EXCEPT !.raised = e]]
  /\ pc' = [pc EXCEPT ![s] = "idle"]

\* A message arrives: the handler starts and checks the session's thread_id.
handle_message(s) ==
  /\ pc[s] = "idle"
  /\ Runnable(s)
  /\ TotalEvents < MaxEvents
  /\ events' = [events EXCEPT ![s] = @ + 1]
  /\ calls' = [calls EXCEPT ![s] = <<>>]
  /\ local' = [local EXCEPT ![s] = LocalInit]
  /\ IF thread_id_missing(thread_id[s])
     THEN /\ sent' = [sent EXCEPT ![s] = <<SessionError>>]
          /\ pc' = pc
     ELSE /\ sent' = [sent EXCEPT ![s] = <<>>]
          /\ pc' = [pc EXCEPT ![s] = "submit"]
  /\ UNCHANGED <<thread_id, started, threads, msgs, runs>>

\* Variant: runs.create is called although messages.create raised.
submit_calls_both(t, raised) ==
  <<Call("messages.create", t, 0), Call("runs.create", t, 0)>>

\* The calls made when submitting, given the call that raised ("" for none):
\* messages.create, then runs.create unless messages.create raised.
submit_calls(t, raised) ==
  IF raised = "messages.create"
  THEN <<Call("messages.create", t, 0)>>
  ELSE <<Call("messages.create", t, 0), Call("runs.create", t, 0)>>

\* messages.create and runs.create, then start_time = time.time().
submit(s) ==
  /\ pc[s] = "submit"
  /\ Runnable(s)
  /\ LET t == thread_id[s] IN
     \E raised \in {"", "messages.create", "runs.create"} :
     \E at \in NextStamps(t) :
       LET made == submit_calls(t, raised)
           posted == raised # "messages.create"
           run_made == \E i \in 1..Len(made) : made[i][1] = "runs.create"
           run_ok == run_made /\ raised = ""
       IN
       /\ msgs' = IF posted /\ t \in ThreadIds
                  THEN [msgs EXCEPT ![t] = Append(@, Message("user", at, <<TextPart(UserText)>>))]
                  ELSE msgs
       /\ runs' = IF run_ok /\ t \in ThreadIds
                  THEN [runs EXCEPT ![t] = Append(@, [status |-> "queued", created_at |-> at])]
                  ELSE runs
       /\ IF raised # ""
          THEN except_clause(s, raised, made, local[s])
          ELSE /\ calls' = [calls EXCEPT ![s] = @ \o made]
               /\ local' = [local EXCEPT ![s] =
                              [@ EXCEPT !.run_id = Len(runs[t]) + 1, !.elapsed = 0]]
               /\ pc' = [pc EXCEPT ![s] = "poll"]
               /\ sent' = sent
  /\ UNCHANGED <<thread_id, events, started, threads>>

\* -------------------------------------------------- wait_for_run_completion

\* Variant: every status but queued and in_progress ends the loop.
is_terminal_not_running(status) == status \notin {"queued", "in_progress"}

\* run.status in ["completed", "failed", "cancelled", "expired"]
is_terminal(status) == status \in {"completed", "failed", "cancelled", "expired"}

\* Variant: the loop gives up as soon as max_wait_time is reached.
timed_out_at_deadline(elapsed) == elapsed >= max_wait_time

\* time.time() - start_time > max_wait_time
timed_out(elapsed) == elapsed > max_wait_time

\* Variant: start_time is taken anew in every iteration.
elapsed_after_restart(elapsed, d) == 0

\* time.time() - start_time after an inter-tick wait of d seconds.
elapsed_after(elapsed, d) == elapsed + d

\* Variant: the timeout path raises without cancelling the run.
cancel_calls_none(t, r) == <<>>

\* The cancel calls of the timeout path.
cancel_calls(t, r) == <<Call("runs.cancel", t, r)>>

\* Variant: only failed runs are told apart from completed ones.
branch_of_not_failed(status) ==
  IF status = "failed" THEN "failed" ELSE "completed"

\* Variant: runs.cancel is called outside any try block.
timeout_path_exception_unguarded(cancel_raised) ==
  IF cancel_raised THEN "runs.cancel" ELSE TimeoutDescription

\* What the timeout path raises: the try/except around runs.cancel ignores
\* its failure, and TimeoutError follows in both cases.
timeout_path_exception(cancel_raised) == TimeoutDescription

\* The branch of handle_message a returned run takes.
branch_of(status) ==
  IF status = "completed" THEN "completed"
  ELSE IF status = "failed" THEN "failed"
  ELSE "other"

\* run = project_client.agents.runs.get(...): the status just fetched.
Fetched(l, st) == [l EXCEPT !.status = st]

\* The loop is left: its clock readings are gone; what stays is whether the
\* last fetch was made after more than max_wait_time had elapsed.
Left(l) == [l EXCEPT !.elapsed = 0, !.deadline_passed = l.elapsed > max_wait_time]

\* runs.get raises: the exception leaves the loop and reaches the except
\* clause of handle_message.
poll_raises(s) ==
  /\ pc[s] = "poll"
  /\ Runnable(s)
  /\ except_clause(s, "runs.get", <<>>, Left(local[s]))
  /\ UNCHANGED <<thread_id, events, started, threads, msgs, runs>>

\* runs.get reports a terminal status: the run is returned. A run that
\* completes may have left an assistant message on the thread.
poll_returns(s) ==
  /\ pc[s] = "poll"
  /\ Runnable(s)
  /\ LET t == thread_id[s]
         r == local[s].run_id
     IN
     \E st \in Successors(runs[t][r].status) :
     \E le \in IF st = "failed" THEN LastErrors ELSE {NoLastError} :
     \E reply \in IF st = "completed"
                  THEN {<<>>} \cup {<<Message("assistant", LastStamp(t), c)>> :
                                      c \in ReplyContents}
                  ELSE {<<>>} :
       /\ is_terminal(st)
       /\ runs' = [runs EXCEPT ![t][r].status = st]
       /\ msgs' = [msgs EXCEPT ![t] = @ \o reply]
       /\ local' = [local EXCEPT ![s] =
                      [Left(Fetched(@, st)) EXCEPT
                         !.created_at = runs[t][r].created_at,
                         !.last_error = le]]
       /\ calls' = [calls EXCEPT ![s] = Logged(@, Call("runs.get", t, r))]
       /\ pc' = [pc EXCEPT ![s] = branch_of(st)]
  /\ UNCHANGED <<thread_id, events, started, threads, sent>>

\* runs.get reports another status after the deadline: runs.cancel is tried,
\* its failure ignored, and TimeoutError is raised.
poll_times_out(s) ==
  /\ pc[s] = "poll"
  /\ Runnable(s)
  /\ LET t == thread_id[s]
         r == local[s].run_id
     IN
     \E st \in Successors(runs[t][r].status) :
     \E cancelled \in BOOLEAN :
       /\ ~is_terminal(st)
       /\ timed_out(local[s].elapsed)
       /\ runs' = [runs EXCEPT ![t][r].status = IF cancelled THEN "cancelled" ELSE st]
       /\ except_clause(s, timeout_path_exception(~cancelled), cancel_calls(t, r),
                        [Left(Fetched(local[s], st)) EXCEPT !.cancel_raised = ~cancelled])
  /\ UNCHANGED <<thread_id, events, started, threads, msgs>>

\* runs.get reports another status before the deadline: asyncio.sleep(1).
poll_continues(s) ==
  /\ pc[s] = "poll"
  /\ Runnable(s)
  /\ LET t == thread_id[s]
         r == local[s].run_id
     IN
     \E st \in Successors(runs[t][r].status) :
       /\ ~is_terminal(st)
       /\ ~timed_out(local[s].elapsed)
       /\ runs' = [runs EXCEPT ![t][r].status = st]
       /\ local' = [local EXCEPT ![s] = Fetched(@, st)]
       /\ calls' = [calls EXCEPT ![s] = Logged(@, Call("runs.get", t, r))]
       /\ pc' = [pc EXCEPT ![s] = "sleep"]
  /\ UNCHANGED <<thread_id, events, started, threads, msgs, sent>>

\* The inter-tick wait ends.
sleep(s) ==
  /\ pc[s] = "sleep"
  /\ Runnable(s)
  /\ \E d \in SleepDurations :
       local' = [local EXCEPT ![s].elapsed = elapsed_after(@, d)]
  /\ pc' = [pc EXCEPT ![s] = "poll"]
  /\ UNCHANGED <<thread_id, events, started, threads, msgs, runs, calls, sent>>

wait_for_run_completion(s) ==
  \/ poll_raises(s)
  \/ poll_returns(s)
  \/ poll_times_out(s)
  \/ poll_continues(s)
  \/ sleep(s)

\* ------------------------------------------- handle_message: a returned run

\* Variant: the fallback does not compare created_at.
qualifies_any_time(msg, run_created_at) == msg.role = "assistant"

\* Variant: the fallback does not look at the role.
qualifies_any_role(msg, run_created_at) == msg.created_at >= run_created_at

\* msg.role == "assistant" and msg.created_at >= run.created_at
qualifies(msg, run_created_at) ==
  msg.role = "assistant" /\ msg.created_at >= run_created_at

\* The fallback loop: the text of the first message that qualifies and has a
\* non-empty extracted text, None when the loop ends without one.
RECURSIVE first_response(_, _)
first_response(messages_list, run_created_at) ==
  IF messages_list = <<>> THEN None
  ELSE LET msg == Head(messages_list) IN
       IF qualifies(msg, run_created_at)
          /\ Truthy(extract_message_content(msg))
       THEN extract_message_content(msg)
       ELSE first_response(Tail(messages_list), run_created_at)

\* getattr(run, 'last_error', {})
error_details_of(last_error) ==
  IF last_error.attr THEN last_error ELSE LastError(TRUE, FALSE, {})

\* Variant: a missing message is rendered as the empty string.
error_message_of_blank(last_error) ==
  IF last_error.attr /\ ~last_error.none
     /\ \E kv \in last_error.items : kv[1] = "message"
  THEN (CHOOSE kv \in last_error.items : kv[1] = "message")[2]
  ELSE ""

\* error_details.get('message', 'Unknown error') if error_details else 'Unknown error'
error_message_of(last_error) ==
  LET error_details == error_details_of(last_error)
      has == \E kv \in error_details.items : kv[1] = "message"
  IN
  IF ~error_details.none /\ error_details.items # {}
  THEN IF has
       THEN (CHOOSE kv \in error_details.items : kv[1] = "message")[2]
       ELSE "Unknown error"
  ELSE "Unknown error"

\* status completed, primary path: get_last_message_text_by_role. A non-empty
\* text is formatted and rendered; an exception or an empty text leads to the
\* fallback.
completed_primary(s) ==
  /\ pc[s] = "completed"
  /\ Runnable(s)
  /\ LET t == thread_id[s] IN
     \E raises \in BOOLEAN :
       \E response_text \in {IF raises THEN None
                               ELSE last_message_text_by_role(msgs[t], "assistant")} :
       /\ calls' = [calls EXCEPT ![s] =
                      Append(@, Call("messages.get_last_message_text_by_role", t, 0))]
       /\ local' = [local EXCEPT ![s] =
                      [@ EXCEPT !.response_text = response_text,
                                !.primary_text = response_text,
                                !.primary_raised = raises]]
       /\ IF Truthy(response_text)
          THEN /\ sent' = [sent EXCEPT ![s] =
                             Append(@, Response(format_agent_response(response_text)))]
               /\ pc' = [pc EXCEPT ![s] = "idle"]
          ELSE /\ sent' = sent
               /\ pc' = [pc EXCEPT ![s] = "fallback"]
  /\ UNCHANGED <<thread_id, events, started, threads, msgs, runs>>

\* status completed, fallback: messages.list and the loop over it.
completed_fallback(s) ==
  /\ pc[s] = "fallback"
  /\ Runnable(s)
  /\ LET t == thread_id[s]
         made == <<Call("messages.list", t, 0)>>
     IN
     \/ except_clause(s, "messages.list", made, local[s])
     \/ \E order \in {"asc", "desc"} :
          LET messages_list == list_messages(msgs[t], order)
              response_text == first_response(messages_list, local[s].created_at)
          IN
          /\ calls' = [calls EXCEPT ![s] = @ \o made]
          /\ local' = [local EXCEPT ![s] =
                         [@ EXCEPT !.messages_list = messages_list,
                                   !.response_text = response_text]]
          /\ sent' = [sent EXCEPT ![s] =
                        Append(@, IF response_text # None
                                  THEN Response(format_agent_response(response_text))
                                  ELSE NoResponse)]
          /\ pc' = [pc EXCEPT ![s] = "idle"]
  /\ UNCHANGED <<thread_id, events, started, threads, msgs, runs>>

\* status failed: the failure notice with the run's error message.
run_failed(s) ==
  /\ pc[s] = "failed"
  /\ Runnable(s)
  /\ sent' = [sent EXCEPT ![s] =
                Append(@, ProcessingFailed(error_message_of(local[s].last_error)))]
  /\ pc' = [pc EXCEPT ![s] = "idle"]
  /\ UNCHANGED <<thread_id, events, started, threads, msgs, runs, local, calls>>

\* any other status: the unexpected-status notice with run.status.
run_other(s) ==
  /\ pc[s] = "other"
  /\ Runnable(s)
  /\ sent' = [sent EXCEPT ![s] = Append(@, UnexpectedStatus(local[s].status))]
  /\ pc' = [pc EXCEPT ![s] = "idle"]
  /\ UNCHANGED <<thread_id, events, started, threads, msgs, runs, local, calls>>

\* ------------------------------------------------------------ specification

Next ==
  \E s \in Sessions :
    \/ start(s)
    \/ handle_message(s)
    \/ submit(s)
    \/ wait_for_run_completion(s)
    \/ completed_primary(s)
    \/ completed_fallback(s)
    \/ run_failed(s)
    \/ run_other(s)
    \/ end(s)

Spec == Init /\ [][Next]_vars

\* Fairness: the event loop resumes a coroutine whose sleep has ended, and a
\* remote call returns or raises.
LiveSpec == Spec /\ \A s \in Sessions : WF_vars(wait_for_run_completion(s))

\* A step of the running handler of session s, after the thread_id check.
handler_step(s) ==
  \/ submit(s)
  \/ wait_for_run_completion(s)
  \/ completed_primary(s)
  \/ completed_fallback(s)
  \/ run_failed(s)
  \/ run_other(s)

\* A handler that has started runs on: every remote call it awaits returns
\* or raises.
HandlerSpec == Spec /\ \A s \in Sessions : WF_vars(handler_step(s))

\* ------------------------------------------- format_agent_response alone

\* Texts given to format_agent_response: None and every text of up to MaxLen
\* characters over whitespace, the heading marker, a letter and the tokens
\* the code-like test looks for.
FormatAlphabet == {" ", "\n", "#", "a", "fence", "def"}
FormatInputs ==
  {None} \cup UNION {[1..k -> FormatAlphabet] : k \in 0..MaxLen}

\* Session 1 holds a text to format; nothing else has happened.
FormatInit ==
  /\ thread_id = [s \in Sessions |-> 0]
  /\ pc = [s \in Sessions |-> IF s = 1 THEN "format" ELSE "new"]
  /\ events = [s \in Sessions |-> 0]
  /\ started = [s \in Sessions |-> [fail |-> "", thread |-> 0]]
  /\ threads = 0
  /\ msgs = [t \in ThreadIds |-> <<>>]
  /\ runs = [t \in ThreadIds |-> <<>>]
  /\ \E x \in FormatInputs :
       local = [s \in Sessions |->
                  IF s = 1 THEN [LocalInit EXCEPT !.response_text = x] ELSE LocalInit]
  /\ calls = [s \in Sessions |-> <<>>]
  /\ sent = [s \in Sessions |-> <<>>]

\* format_agent_response(response_text)
format_once ==
  /\ pc[1] = "format"
  /\ sent' = [sent EXCEPT ![1] =
                <<Response(format_agent_response(local[1].response_text))>>]
  /\ pc' = [pc EXCEPT ![1] = "formatted"]
  /\ UNCHANGED <<thread_id, events, started, threads, msgs, runs, local, calls>>

\* format_agent_response applied to its own result
format_twice ==
  /\ pc[1] = "formatted"
  /\ sent' = [sent EXCEPT ![1] =
                Append(@, Response(format_agent_response(sent[1][1].text)))]
  /\ pc' = [pc EXCEPT ![1] = "formatted_twice"]
  /\ UNCHANGED <<thread_id, events, started, threads, msgs, runs, local, calls>>

FormatNext == format_once \/ format_twice

FormatSpec == FormatInit /\ [][FormatNext]_vars

\* ----------------------------------------- extract_message_content alone

\* Content parts of the shapes the function tells apart: a text part with a
\* value (non-empty, empty), a part without a text attribute (typed as an
\* image, typed as text), and a part whose text attribute has no value.
PartSamples ==
  { TextPart(Hi), TextPart(<<>>), ImagePart, BareTextPart,
    [type |-> "image_file", has_text |-> TRUE, has_value |-> FALSE, value |-> <<>>] }
ContentInputs == UNION {[1..k -> PartSamples] : k \in 0..MaxParts}

\* Thread 1 holds one message to extract the text of.
ExtractInit ==
  /\ thread_id = [s \in Sessions |-> 0]
  /\ pc = [s \in Sessions |-> IF s = 1 THEN "extract" ELSE "new"]
  /\ events = [s \in Sessions |-> 0]
  /\ started = [s \in Sessions |-> [fail |-> "", thread |-> 0]]
  /\ threads = 0
  /\ \E content \in ContentInputs :
       msgs = [t \in ThreadIds |->
                 IF t = 1 THEN <<Message("assistant", 1, content)>> ELSE <<>>]
  /\ runs = [t \in ThreadIds |-> <<>>]
  /\ local = [s \in Sessions |-> LocalInit]
  /\ calls = [s \in Sessions |-> <<>>]
  /\ sent = [s \in Sessions |-> <<>>]

\* extract_message_content(message)
extract ==
  /\ pc[1] = "extract"
  /\ local' = [local EXCEPT ![1].response_text = extract_message_content(msgs[1][1])]
  /\ pc' = [pc EXCEPT ![1] = "extracted"]
  /\ UNCHANGED <<thread_id, events, started, threads, msgs, runs, calls, sent>>

ExtractNext == extract

ExtractSpec == ExtractInit /\ [][ExtractNext]_vars

\* ------------------------------------------------------------- properties

\* The handler of the session's latest message has returned.
Done(s) == events[s] > 0 /\ pc[s] \in {"idle", "ended"}

\* The session's handler is inside wait_for_run_completion.
Polling(s) == pc[s] \in {"poll", "sleep"}

\* wait_for_run_completion has returned a run to handle_message.
Returned(s) ==
  \/ pc[s] \in {"completed", "fallback", "failed", "other"}
  \/ Done(s) /\ local[s].status \in TerminalStatuses /\ local[s].run_id # 0
             /\ local[s].raised \notin {TimeoutDescription, "runs.get"}

TimedOut(s) == Done(s) /\ local[s].raised = TimeoutDescription

CallCount(s, name) ==
  Cardinality({i \in 1..Len(calls[s]) : calls[s][i][1] = name})

\* C1: one invocation of wait_for_run_completion never polls for ever: as
\* every inter-tick wait advances the clock, a session inside the poll loop
\* eventually leaves it, with a returned run whose status is completed,
\* failed, cancelled or expired, or with the timeout error (or, when runs.get
\* raises instead of reporting a status, with that exception).
C1_PollEnds ==
  \A s \in Sessions :
    Polling(s) ~>
      \/ Returned(s) /\ local[s].status \in {"completed", "failed", "cancelled", "expired"}
      \/ TimedOut(s)
      \/ Done(s) /\ local[s].raised = "runs.get"

\* A run polled past the deadline is returned with a terminal status.
C1_Witness ==
  \E s \in Sessions :
    /\ Done(s)
    /\ Returned(s)
    /\ local[s].status = "expired"
    /\ local[s].deadline_passed

CompletedDone(s) ==
  /\ Done(s)
  /\ local[s].run_id # 0
  /\ local[s].status = "completed"
  /\ local[s].raised = ""

\* The listed messages the claim's filter keeps: role assistant, created_at
\* not before the run's, and a non-empty extracted text.
Qualifying(s) ==
  SelectSeq(local[s].messages_list,
            LAMBDA m : /\ m.role = "assistant"
                       /\ m.created_at >= local[s].created_at
                       /\ Truthy(extract_message_content(m)))

\* C3: when the run ends completed within the timeout, the handler renders
\* the formatted text of the first qualifying assistant message: the text
\* get_last_message_text_by_role returned when that call succeeded with a
\* non-empty text, with messages.list not called; otherwise the extracted
\* text of the first listed message with role assistant and created_at >=
\* run.created_at that has one.
C3_CompletedReply ==
  \A s \in Sessions :
    CompletedDone(s) =>
      IF ~local[s].primary_raised /\ Truthy(local[s].primary_text)
      THEN /\ sent[s] = <<Response(format_agent_response(local[s].primary_text))>>
           /\ CallCount(s, "messages.list") = 0
      ELSE /\ CallCount(s, "messages.list") = 1
           /\ Qualifying(s) # <<>> =>
                sent[s] = <<Response(format_agent_response(
                                       extract_message_content(Qualifying(s)[1])))>>

\* queued, in_progress, completed; the primary call returns " Hi\n" and the
\* heading followed by "Hi" is rendered.
C3_Witness ==
  \E s \in Sessions :
    /\ CompletedDone(s)
    /\ local[s].primary_text = Padded
    /\ sent[s] = <<Response(Heading \o Hi)>>
    /\ CallCount(s, "messages.list") = 0

\* The fallback renders a message of this run while an assistant message of
\* an earlier run is on the thread.
C3_FallbackWitness ==
  \E s \in Sessions :
    /\ CompletedDone(s)
    /\ local[s].primary_raised
    /\ Len(Qualifying(s)) = 1
    /\ Len(local[s].messages_list) = 4
    /\ sent[s] = <<Response(Headed)>>

\* C4: a run returned as failed is rendered as the failure notice, not
\* raised and not the processing-error notice; the notice carries
\* last_error's message, and "Unknown error" when last_error is absent, None,
\* empty or without a message.
C4_FailedNotice ==
  \A s \in Sessions :
    (Done(s) /\ local[s].run_id # 0 /\ local[s].status = "failed"
             /\ local[s].raised # "runs.get")
    => LET le == local[s].last_error
           with_message == le.attr /\ ~le.none
                           /\ \E kv \in le.items : kv[1] = "message"
       IN
       /\ local[s].raised = ""
       /\ Len(sent[s]) = 1
       /\ sent[s][1].kind = "processing_failed"
       /\ with_message => <<"message", sent[s][1].detail>> \in le.items
       /\ ~with_message => sent[s][1].detail = "Unknown error"

C4_Witness ==
  \E s \in Sessions :
    /\ Done(s)
    /\ local[s].status = "failed"
    /\ ~local[s].last_error.attr
    /\ sent[s] = <<ProcessingFailed("Unknown error")>>

C4_MessageWitness ==
  \E s \in Sessions :
    /\ Done(s)
    /\ local[s].status = "failed"
    /\ sent[s] = <<ProcessingFailed("Rate limit is exceeded.")>>

\* C5: a run returned as cancelled or expired is rendered as the
\* unexpected-status notice carrying that status, and neither
\* get_last_message_text_by_role nor messages.list is called.
C5_CancelledExpired ==
  \A s \in Sessions :
    (Done(s) /\ local[s].run_id # 0 /\ local[s].status \in {"cancelled", "expired"}
             /\ local[s].raised # "runs.get")
    => /\ sent[s] = <<UnexpectedStatus(local[s].status)>>
       /\ CallCount(s, "messages.get_last_message_text_by_role") = 0
       /\ CallCount(s, "messages.list") = 0

C5_Witness ==
  \E s \in Sessions :
    /\ Done(s)
    /\ local[s].status = "expired"
    /\ sent[s] = <<UnexpectedStatus("expired")>>

\* A status that is neither queued, in_progress nor one of the four terminal
\* ones.
Unrecognized(status) ==
  status \notin {"", "queued", "in_progress", "completed", "failed", "cancelled", "expired"}

\* C6 as stated: when the last status runs.get reported is an unrecognized
\* one, the handler renders the unexpected-status notice carrying it.
C6_Original ==
  \A s \in Sessions :
    (Done(s) /\ Unrecognized(local[s].status) /\ local[s].raised # "runs.get")
    => sent[s] = <<UnexpectedStatus(local[s].status)>>

\* C6 amended: an unrecognized status is polled like queued and in_progress.
\* The poll loop returns no run with such a status, the unexpected-status
\* notice carries only cancelled or expired, and a handler whose last fetched
\* status is unrecognized has ended with the timeout error (or the exception
\* of runs.get), rendered as the processing-error notice.
C6_UnrecognizedPolled ==
  \A s \in Sessions :
    /\ pc[s] \in {"completed", "fallback", "failed", "other"}
       => ~Unrecognized(local[s].status)
    /\ \A i \in 1..Len(sent[s]) :
         sent[s][i].kind = "unexpected_status"
         => sent[s][i].detail \in {"cancelled", "expired"}
    /\ (Done(s) /\ Unrecognized(local[s].status))
       => /\ local[s].raised \in {TimeoutDescription, "runs.get"}
          /\ local[s].raised = TimeoutDescription => local[s].deadline_passed
          /\ sent[s] = <<ProcessingError(local[s].raised)>>

C6_Witness ==
  \E s \in Sessions :
    /\ Done(s)
    /\ local[s].status = "requires_action"
    /\ sent[s] = <<ProcessingError(TimeoutDescription)>>

\* C7: a session's thread_id is absent or the id of the thread created at
\* that session's start, it differs from every other session's thread_id,
\* and once set no step (message received, session end or any other) changes
\* or clears it.
C7_ThreadIdImmutable ==
  /\ [](\A s \in Sessions :
          /\ thread_id[s] \in {0, started[s].thread}
          /\ \A o \in Sessions \ {s} :
               thread_id[s] # 0 => thread_id[s] # thread_id[o])
  /\ [][\A s \in Sessions : thread_id[s] # 0 => thread_id'[s] = thread_id[s]]_vars

\* Both sessions hold a thread; one has handled a message and then ended.
C7_Witness ==
  \E s \in Sessions : \E o \in Sessions \ {s} :
    /\ thread_id[s] # 0
    /\ thread_id[o] # 0
    /\ events[s] > 0
    /\ pc[s] = "ended"
    /\ pc[o] = "idle"

\* C8: a message received while thread_id is absent is answered with the
\* session-not-initialized notice and with no remote call: the service's state
\* and the session's thread_id are unchanged, and the session is idle again,
\* able to receive the next message.
C8_NotInitialized ==
  [][\A s \in Sessions :
       (thread_id[s] = 0 /\ events'[s] > events[s])
       => /\ sent'[s] = <<SessionError>>
          /\ calls'[s] = <<>>
          /\ <<threads, msgs, runs>>' = <<threads, msgs, runs>>
          /\ thread_id' = thread_id
          /\ pc'[s] = "idle"]_vars

\* A session without thread has received two messages.
C8_Witness ==
  \E s \in Sessions :
    /\ thread_id[s] = 0
    /\ events[s] = 2
    /\ sent[s] = <<SessionError>>
    /\ calls[s] = <<>>

\* C9: whichever step of start fails, start ends with the connection-error
\* notice rendered (carrying the exception's description) and nothing else;
\* when threads.create failed, thread_id stays absent and a message received
\* afterwards gets the session-not-initialized notice with no remote call.
C9_StartFailure ==
  \A s \in Sessions :
    (pc[s] # "new" /\ started[s].fail # "")
    => /\ events[s] = 0 => sent[s] = <<ConnectionError(started[s].fail)>>
       /\ started[s].fail = "threads.create"
          => /\ thread_id[s] = 0
             /\ events[s] > 0 => /\ sent[s] = <<SessionError>>
                                 /\ calls[s] = <<>>
                                 /\ pc[s] \in {"idle", "ended"}

C9_Witness ==
  \E s \in Sessions :
    /\ started[s].fail = "threads.create"
    /\ events[s] > 0
    /\ sent[s] = <<SessionError>>

C9_NoticeWitness ==
  \E s \in Sessions :
    /\ started[s].fail = "Message.send"
    /\ thread_id[s] # 0
    /\ sent[s] = <<ConnectionError("Message.send")>>

\* C10: an exception of messages.create or runs.create is rendered as the
\* processing-error notice with its description and nothing is retried:
\* each of the two is called at most once per message, runs.create is not
\* called after messages.create raised, and runs.get is not called after
\* runs.create raised.
C10_NoRetry ==
  \A s \in Sessions :
    events[s] > 0 =>
      /\ CallCount(s, "messages.create") <= 1
      /\ CallCount(s, "runs.create") <= 1
      /\ local[s].raised = "messages.create"
         => /\ sent[s] = <<ProcessingError("messages.create")>>
            /\ calls[s] = <<Call("messages.create", thread_id[s], 0)>>
            /\ Done(s)
      /\ local[s].raised = "runs.create"
         => /\ sent[s] = <<ProcessingError("runs.create")>>
            /\ calls[s] = <<Call("messages.create", thread_id[s], 0),
                            Call("runs.create", thread_id[s], 0)>>
            /\ Done(s)

C10_Witness ==
  \E s \in Sessions :
    /\ local[s].raised = "messages.create"
    /\ sent[s] = <<ProcessingError("messages.create")>>
    /\ CallCount(s, "runs.create") = 0

C10_RunWitness ==
  \E s \in Sessions :
    /\ local[s].raised = "runs.create"
    /\ sent[s] = <<ProcessingError("runs.create")>>
    /\ CallCount(s, "runs.get") = 0

PollStep(s) == pc[s] = "poll" /\ pc'[s] # "poll"

C12_CancelFailureIgnored ==
  \A s \in Sessions :
    CallCount(s, "runs.cancel") > 0
    => /\ Done(s)
       /\ local[s].raised = TimeoutDescription
       /\ sent[s] = <<ProcessingError(TimeoutDescription)>>

\* runs.cancel raised and the timeout was rendered.
C12_Witness ==
  \E s \in Sessions :
    /\ CallCount(s, "runs.cancel") = 1
    /\ local[s].cancel_raised
    /\ sent[s] = <<ProcessingError(TimeoutDescription)>>

\* runs.cancel returned and the timeout was rendered.
C12_CancelledWitness ==
  \E s \in Sessions :
    /\ CallCount(s, "runs.cancel") = 1
    /\ ~local[s].cancel_raised
    /\ runs[thread_id[s]][local[s].run_id].status = "cancelled"
    /\ sent[s] = <<ProcessingError(TimeoutDescription)>>

\* C13: whatever the remote calls do, the handler of a message returns,
\* and when it has returned it has rendered exactly one message (the reply,
\* the no-response notice, a status notice, the session error or the
\* processing error); while it runs it has rendered none.
C13_OneRendering ==
  /\ [](\A s \in Sessions :
          /\ Done(s) => Len(sent[s]) = 1
          /\ (events[s] > 0 /\ ~Done(s)) => sent[s] = <<>>)
  /\ \A s \in Sessions : (events[s] > 0) ~> Done(s)

\* An exception raised as late as in the fallback's messages.list call has
\* been rendered as the one message of the event.
C13_Witness ==
  \E s \in Sessions :
    /\ Done(s)
    /\ local[s].raised = "messages.list"
    /\ sent[s] = <<ProcessingError("messages.list")>>

\* The runs of thread t the service still reports as queued or in_progress.
Outstanding(t) ==
  {i \in 1..Len(runs[t]) : runs[t][i].status \in {"queued", "in_progress"}}

\* C14: a session has at most one run outstanding: no run is created on its
\* thread while an earlier run of the thread is still queued or in_progress,
\* also after a timed-out poll whose runs.cancel failed.
C14_OneOutstanding ==
  \A t \in ThreadIds : Cardinality(Outstanding(t)) <= 1

\* What belongs to session a: its callbacks' position and variables, its
\* rendered messages, its thread and the runs and messages on it.
Own(a) ==
  <<pc[a], events[a], started[a], thread_id[a], local[a], calls[a], sent[a],
    IF thread_id[a] \in ThreadIds
    THEN <<msgs[thread_id[a]], runs[thread_id[a]]>> ELSE <<>>>>

C15_AnsweredWitness ==
  \E a \in Sessions : \E b \in Sessions \ {a} :
    /\ pc[a] = "sleep"
    /\ local[a].status = "in_progress"
    /\ CompletedDone(b)
    /\ Len(sent[b]) = 1 /\ sent[b][1].kind = "response"

\* The text given to format_agent_response, its result, and the result of
\* formatting that result.
FormatInput == local[1].response_text
Once == sent[1][1].text
Twice == sent[1][2].text

\* The input is a text that does not begin with a heading marker.
Unheaded(x) == Truthy(x) /\ ~startswith(strip(x), <<"#">>)

\* C16 as stated: format_agent_response is not idempotent on unheaded input:
\* formatting the result of an unheaded text again gives a different text,
\* the heading being prefixed once more.
C16_Original ==
  (pc[1] = "formatted_twice" /\ Unheaded(FormatInput)) => Twice # Once

\* C16 amended: the heading is never prefixed twice. The heading itself
\* begins with the marker, so formatting a result again only trims it; the
\* result changes exactly for a non-empty input of whitespace only, whose
\* result is the bare heading with its trailing newlines.
C16_HeadingOnce ==
  pc[1] = "formatted_twice"
  => /\ Twice = strip(Once)
     /\ ~startswith(Twice, Heading \o Heading)
     /\ Twice # Once <=> (Truthy(FormatInput) /\ strip(FormatInput) = <<>>)
     /\ Twice # Once => (Once = Heading /\ Twice = rstrip(Heading))

\* An unheaded text has been formatted twice and the result is the result
\* of formatting it once, with one heading.
C16_Witness ==
  /\ pc[1] = "formatted_twice"
  /\ FormatInput = <<"a", " ", "a">>
  /\ Once = Heading \o <<"a", " ", "a">>
  /\ Twice = Once

\* The one kind of input on which a second formatting changes the result.
C16_WhitespaceWitness ==
  /\ pc[1] = "formatted_twice"
  /\ FormatInput = <<" ", "\n">>
  /\ Twice # Once

\* C17: format_agent_response returns a non-empty text for every input: the
\* no-content notice for None and the empty text; otherwise the trimmed
\* text itself when that begins with the marker, and the heading followed
\* by the trimmed text when it does not, code-like or not.
C17_Formatted ==
  pc[1] \in {"formatted", "formatted_twice"}
  => /\ Once # <<>>
     /\ FormatInput \in {None, <<>>} => Once = NoContentNotice
     /\ FormatInput \notin {None, <<>>}
        => LET trimmed == strip(FormatInput) IN
           /\ (trimmed # <<>> /\ trimmed[1] = "#") => Once = trimmed
           /\ (trimmed = <<>> \/ trimmed[1] # "#") => Once = Heading \o trimmed

\* A code-like text with surrounding whitespace has been formatted.
C17_Witness ==
  /\ pc[1] = "formatted"
  /\ FormatInput = <<" ", "fence", "\n">>
  /\ Once = Heading \o <<"fence">>

\* A text beginning with the marker has been returned trimmed.
C17_HeadedWitness ==
  /\ pc[1] = "formatted"
  /\ FormatInput = <<"\n", "#", "a">>
  /\ Once = <<"#", "a">>

\* C18: extract_message_content returns the text value of the first content
\* part that has one, whatever parts come before it, and None when no part
\* has one.
C18_FirstTextValue ==
  pc[1] = "extracted"
  => LET values == text_values(msgs[1][1].content) IN
     local[1].response_text = IF values = <<>> THEN None ELSE values[1]

\* The handler of a completed run has answered from the fallback's list.
FallbackDone(s) == CompletedDone(s) /\ CallCount(s, "messages.list") = 1

\* The listed messages with role assistant and created_at >= the run's.
Matching(s) ==
  SelectSeq(local[s].messages_list,
            LAMBDA m : m.role = "assistant" /\ m.created_at >= local[s].created_at)

\* C19 as stated: on the fallback path the first listed message with role
\* assistant and created_at >= run.created_at decides the reply: its
\* extracted text is rendered (when it has none, the no-content or the
\* no-response notice), and without such a message the no-response notice.
C19_Original ==
  \A s \in Sessions :
    FallbackDone(s)
    => IF Matching(s) = <<>>
       THEN sent[s] = <<NoResponse>>
       ELSE LET first == extract_message_content(Matching(s)[1]) IN
            IF Truthy(first)
            THEN sent[s] = <<Response(format_agent_response(first))>>
            ELSE sent[s] \in {<<NoResponse>>, <<Response(NoContentNotice)>>}

\* C19 amended: the fallback renders the extracted text of the first listed
\* message with role assistant, created_at >= run.created_at and a
\* non-empty extracted text, passing over matching messages without text;
\* without such a message it renders the no-response notice, as a result
\* and not as an error. No user message and no message stamped before the
\* run is rendered.
C19_FirstWithText ==
  \A s \in Sessions :
    FallbackDone(s)
    => /\ Len(sent[s]) = 1
       /\ sent[s][1].kind \in {"response", "no_response"}
       /\ sent[s][1].kind = "response"
          <=> \E i \in 1..Len(Matching(s)) :
                Truthy(extract_message_content(Matching(s)[i]))
       /\ sent[s][1].kind = "response"
          => \E i \in 1..Len(Matching(s)) :
               /\ Truthy(extract_message_content(Matching(s)[i]))
               /\ \A j \in 1..(i - 1) : ~Truthy(extract_message_content(Matching(s)[j]))
               /\ sent[s][1].text =
                    format_agent_response(extract_message_content(Matching(s)[i]))

\* The fallback has passed over a matching message without text and
\* rendered the text of a later one.
C19_Witness ==
  \E s \in Sessions :
    /\ FallbackDone(s)
    /\ Len(Matching(s)) = 2
    /\ ~Truthy(extract_message_content(Matching(s)[1]))
    /\ sent[s] = <<Response(format_agent_response(extract_message_content(Matching(s)[2])))>>

\* Neither path has found a text: the no-response notice.
C19_NoResponseWitness ==
  \E s \in Sessions :
    /\ FallbackDone(s)
    /\ Matching(s) = <<>>
    /\ sent[s] = <<NoResponse>>

\* C20: the reply rendered for a completed run is the text of an assistant
\* message of that run, one on the thread with created_at >= the run's
\* created_at; a message an earlier run left is never the answer to a later
\* user message, on either path.
C20_OwnReply ==
  \A s \in Sessions :
    (CompletedDone(s) /\ Len(sent[s]) = 1 /\ sent[s][1].kind = "response")
    => \E i \in 1..Len(msgs[thread_id[s]]) :
         LET m == msgs[thread_id[s]][i] IN
         /\ m.role = "assistant"
         /\ m.created_at >= local[s].created_at
         /\ \E k \in 1..Len(text_values(m.content)) :
              sent[s][1].text = format_agent_response(text_values(m.content)[k])

====
